---- MODULE Spec2Model ----
(***************************************************************************)
(* commitlint-rs: the scope-enum rule (rule_scope_enum) and the run of     *)
(* main in src/main.rs, with the commit parser of module `parser`.         *)
(*                                                                         *)
(* Text is modelled as a sequence of one-character strings, so that        *)
(* joining, concatenating and slicing are computed, not assumed.  All text *)
(* is ASCII: byte offsets and character offsets coincide.  A Rust span     *)
(* start..end is 0-based and half open; it selects the 1-based positions   *)
(* start+1 .. end of the sequence.                                         *)
(***************************************************************************)
EXTENDS Naturals, Sequences, FiniteSets

\* Option<T>: None is the empty sequence, Some(x) the one-element sequence
None == <<>>
Some(x) == <<x>>
Unwrap(o) == o[1]

(***************************************************************************)
(* Text helpers                                                            *)
(***************************************************************************)

\* Vec<String>::contains: exact string equality with some element
Contains(v, s) == \E i \in 1..Len(v) : v[i] = s

RECURSIVE Join(_, _)
\* [String]::join(sep): the elements in order, sep between neighbours
Join(v, sep) ==
    IF v = <<>> THEN <<>>
    ELSE IF Len(v) = 1 THEN v[1]
    ELSE v[1] \o sep \o Join(Tail(v), sep)

\* Span {start, end}: byte offsets into the raw message
Span(s, e) == [start |-> s, end |-> e]

\* Scoped<T>: a value with the span it was lexed from
Scoped(v, s, e) == [value |-> v, span |-> Span(s, e)]

\* raw[span.start..span.end]
Slice(raw, sp) == SubSeq(raw, sp.start + 1, sp.end)

LowerCase == <<"a","b","c","d","e","f","g","h","i","j","k","l","m",
               "n","o","p","q","r","s","t","u","v","w","x","y","z">>
UpperCase == <<"A","B","C","D","E","F","G","H","I","J","K","L","M",
               "N","O","P","Q","R","S","T","U","V","W","X","Y","Z">>
Digits == {"0","1","2","3","4","5","6","7","8","9"}

\* char::to_ascii_uppercase
ToUpper(c) ==
    IF \E i \in 1..26 : LowerCase[i] = c
    THEN UpperCase[CHOOSE i \in 1..26 : LowerCase[i] = c]
    ELSE c

UpperText(s) == [i \in 1..Len(s) |-> ToUpper(s[i])]

\* a footer token character: alphanumeric or hyphen
IsTokenChar(c) ==
    \/ \E i \in 1..26 : LowerCase[i] = c \/ UpperCase[i] = c
    \/ c \in Digits
    \/ c = "-"

BREAKING_CHANGE == <<"B","R","E","A","K","I","N","G"," ","C","H","A","N","G","E">>
BREAKING_HYPHEN == <<"B","R","E","A","K","I","N","G","-","C","H","A","N","G","E">>

(***************************************************************************)
(* parser::parse_commit                                                    *)
(***************************************************************************)

\* 1-based position of the first "\n" at or after p, Len(raw)+1 when none
LineEnd(raw, p) ==
    IF \E j \in p..Len(raw) : raw[j] = "\n"
    THEN CHOOSE j \in p..Len(raw) :
            /\ raw[j] = "\n"
            /\ \A k \in p..(j - 1) : raw[k] # "\n"
    ELSE Len(raw) + 1

RECURSIVE LinesFrom(_, _)
\* the spans of the lines of raw from 1-based position p on, newlines excluded
LinesFrom(raw, p) ==
    LET e == LineEnd(raw, p)
    IN  <<Span(p - 1, e - 1)>>
        \o (IF e > Len(raw) THEN <<>> ELSE LinesFrom(raw, e + 1))

\* 1-based position of the ':' of the first ": " in h, 0 when absent
FindSep(h) ==
    IF \E i \in 1..(Len(h) - 1) : h[i] = ":" /\ h[i + 1] = " "
    THEN CHOOSE i \in 1..(Len(h) - 1) :
            /\ h[i] = ":" /\ h[i + 1] = " "
            /\ \A k \in 1..(i - 1) : ~(h[k] = ":" /\ h[k + 1] = " ")
    ELSE 0

\* length of the longest run of non-'(' non-':' non-'!' characters opening p
TypeLen(p) ==
    IF \E i \in 1..Len(p) : p[i] \in {"(", ":", "!"}
    THEN (CHOOSE i \in 1..Len(p) :
            /\ p[i] \in {"(", ":", "!"}
            /\ \A k \in 1..(i - 1) : p[k] \notin {"(", ":", "!"}) - 1
    ELSE Len(p)

\* the header line h (it starts at offset 0 of raw):
\* type(scope)!: description, (scope) and ! optional
ParseHeader(h) ==
    LET sep      == FindSep(h)
        whole    == [type_ |-> None, scope |-> None, breaking |-> FALSE,
                     description |-> Scoped(h, 0, Len(h))]
    IN  IF sep = 0 THEN whole
        ELSE
        LET prefix   == SubSeq(h, 1, sep - 1)
            bang     == Len(prefix) >= 1 /\ prefix[Len(prefix)] = "!"
            core     == IF bang THEN SubSeq(prefix, 1, Len(prefix) - 1) ELSE prefix
            t        == TypeLen(core)
            n        == Len(core)
            noScope  == t = n
            inner    == SubSeq(core, t + 2, n - 1)
            hasScope == /\ n >= t + 2
                        /\ core[t + 1] = "("
                        /\ core[n] = ")"
                        /\ \A i \in 1..Len(inner) : inner[i] \notin {"(", ")"}
        IN  IF t >= 1 /\ (noScope \/ hasScope)
            THEN [type_ |-> Some(Scoped(SubSeq(core, 1, t), 0, t)),
                  scope |-> IF hasScope THEN Some(Scoped(inner, t + 1, n - 1))
                            ELSE None,
                  breaking |-> bang,
                  description |-> Scoped(SubSeq(h, sep + 2, Len(h)), sep + 1, Len(h))]
            ELSE whole

\* a line containing only whitespace
IsBlank(raw, ln) == \A i \in (ln.start + 1)..ln.end : raw[i] = " "

RECURSIVE Paragraphs(_, _, _)
\* the lines ls grouped into paragraphs (runs of non-blank lines); cur is the
\* paragraph being collected
Paragraphs(raw, ls, cur) ==
    LET done == IF cur = <<>> THEN <<>> ELSE <<cur>>
    IN  IF ls = <<>> THEN done
        ELSE IF IsBlank(raw, Head(ls))
             THEN done \o Paragraphs(raw, Tail(ls), <<>>)
             ELSE Paragraphs(raw, Tail(ls), Append(cur, Head(ls)))

\* length of the footer token opening text l: the literal breaking-change
\* phrase, else a run of alphanumerics/hyphens
TokenLen(l) ==
    IF Len(l) >= 15 /\ UpperText(SubSeq(l, 1, 15)) = BREAKING_CHANGE THEN 15
    ELSE IF \E i \in 1..Len(l) : ~IsTokenChar(l[i])
         THEN (CHOOSE i \in 1..Len(l) :
                 /\ ~IsTokenChar(l[i])
                 /\ \A k \in 1..(i - 1) : IsTokenChar(l[k])) - 1
         ELSE Len(l)

\* `Token: value` or `Token #value` on line ln; None when the line is no footer
ParseFooter(raw, ln) ==
    LET l == Slice(raw, ln)
        t == TokenLen(l)
    IN  IF /\ t >= 1
           /\ Len(l) >= t + 2
           /\ SubSeq(l, t + 1, t + 2) \in {<<":", " ">>, <<" ", "#">>}
        THEN Some([value |-> [token |-> SubSeq(l, 1, t),
                              value |-> SubSeq(l, t + 3, Len(l))],
                   span  |-> Span(ln.start + t + 2, ln.end)])
        ELSE None

IsFooterParagraph(raw, para) ==
    \A i \in 1..Len(para) : ParseFooter(raw, para[i]) # None

\* number of trailing paragraphs that match the footer grammar
TrailingFooters(raw, ps) ==
    CHOOSE k \in 0..Len(ps) :
        /\ \A i \in (Len(ps) - k + 1)..Len(ps) : IsFooterParagraph(raw, ps[i])
        /\ k < Len(ps) => ~IsFooterParagraph(raw, ps[Len(ps) - k])

RECURSIVE Flatten(_)
Flatten(ps) == IF ps = <<>> THEN <<>> ELSE Head(ps) \o Flatten(Tail(ps))

ParagraphText(raw, para) ==
    Slice(raw, Span(para[1].start, para[Len(para)].end))

IsBreakingToken(tok) == UpperText(tok) \in {BREAKING_CHANGE, BREAKING_HYPHEN}

\* parse_commit(raw) -> Commit; never fails
parse_commit(raw) ==
    LET lines   == LinesFrom(raw, 1)
        header  == ParseHeader(Slice(raw, lines[1]))
        ps      == Paragraphs(raw, Tail(lines), <<>>)
        k       == TrailingFooters(raw, ps)
        bodyPs  == SubSeq(ps, 1, Len(ps) - k)
        footLs  == Flatten(SubSeq(ps, Len(ps) - k + 1, Len(ps)))
        footers == [i \in 1..Len(footLs) |-> Unwrap(ParseFooter(raw, footLs[i]))]
    IN  [raw         |-> raw,
         type_       |-> header.type_,
         scope       |-> header.scope,
         breaking    |-> \/ header.breaking
                         \/ \E i \in 1..Len(footers) :
                               IsBreakingToken(footers[i].value.token),
         description |-> header.description,
         body        |-> IF bodyPs = <<>> THEN None
                         ELSE Some(Join([i \in 1..Len(bodyPs) |->
                                            ParagraphText(raw, bodyPs[i])],
                                        <<"\n", "\n">>)),
         footers     |-> footers]

(***************************************************************************)
(* Severity, Condition, ScopeEnumOpts and their serde names                *)
(***************************************************************************)

\* enum Severity
Severity == {"Off", "Warning", "Error"}

\* enum Condition
Condition == {"Never", "Always"}

\* #[serde(rename = ...)] of Severity: the configured word to the variant
DeserializeSeverity(w) ==
    CASE w = "off"     -> Some("Off")
      [] w = "warning" -> Some("Warning")
      [] w = "error"   -> Some("Error")
      [] OTHER         -> None

\* #[serde(rename = ...)] of Condition
DeserializeCondition(w) ==
    CASE w = "never"  -> Some("Never")
      [] w = "always" -> Some("Always")
      [] OTHER        -> None

\* settings.try_deserialize::<RulesConfig>(): Err (None) when the rules table
\* or its scope-enum entry is missing or a word names no variant
try_deserialize(st) ==
    IF st.rules = None THEN None
    ELSE LET r == Unwrap(st.rules)
             sv == DeserializeSeverity(r.severity)
             cd == DeserializeCondition(r.condition)
         IN  IF sv = None \/ cd = None THEN None
             ELSE Some([severity  |-> Unwrap(sv),
                        condition |-> Unwrap(cd),
                        scopes    |-> r.scopes])

(***************************************************************************)
(* rule_scope_enum                                                         *)
(***************************************************************************)

SCOPE_MUST == <<"s","c","o","p","e"," ","m","u","s","t">>
NOT_ == <<" ","n","o","t">>
BE_ONE_OF == <<" ","b","e"," ","o","n","e"," ","o","f"," ">>
COMMA == <<",", " ">>

\* a slip: the condition is ignored, membership alone decides
is_valid_membership_only(condition, is_in_scopes) == is_in_scopes

\* is_valid: the match on condition over is_in_scopes
is_valid(condition, is_in_scopes) ==
    CASE condition = "Never"  -> ~is_in_scopes
      [] condition = "Always" -> is_in_scopes

\* a slip: every reported violation is an error
ReportSeverityAllError(severity) ==
    CASE severity = "Off" -> "miette::Severity::Advice"
      [] OTHER            -> "miette::Severity::Error"

\* the severity handed to miette
ReportSeverity(severity) ==
    CASE severity = "Warning" -> "miette::Severity::Warning"
      [] severity = "Error"   -> "miette::Severity::Error"
      [] severity = "Off"     -> "miette::Severity::Advice"

\* a slip: an inclusive end, one byte past the scope
ReportLabelsInclusive(scope) ==
    <<[span  |-> Span(scope.span.start, scope.span.end + 1),
       label |-> "not allowed scope"]>>

\* labels = vec![LabeledSpan::at(scope.start()..scope.end(), "not allowed scope")]
ReportLabels(scope) ==
    <<[span  |-> Span(scope.span.start, scope.span.end),
       label |-> "not allowed scope"]>>

\* a slip: joined with "," and no space
ReportHelpTightJoin(condition, scopes) ==
    SCOPE_MUST
    \o (CASE condition = "Never" -> NOT_ [] condition = "Always" -> <<>>)
    \o BE_ONE_OF
    \o Join(scopes, <<",">>)

\* help = "scope must" + (" not" | "") + " be one of " + &scopes.join(", ")
ReportHelp(condition, scopes) ==
    SCOPE_MUST
    \o (CASE condition = "Never" -> NOT_ [] condition = "Always" -> <<>>)
    \o BE_ONE_OF
    \o Join(scopes, COMMA)

\* a slip: the scope falls back to the commit type
scope_or_type(c) == IF c.scope = None THEN c.type_ ELSE c.scope

\* line 17: &commit.scope
scope_of(c) == c.scope

\* a slip: the source code handed over is the header line only
ReportHeaderSource(c, opts) ==
    [severity    |-> ReportSeverity(opts.severity),
     labels      |-> ReportLabels(Unwrap(scope_of(c))),
     help        |-> ReportHelp(opts.condition, opts.scopes),
     code        |-> "rule/scope-enum",
     url         |-> "https://example.com",
     message     |-> "Scope not allowed",
     source_code |-> Slice(c.raw, LinesFrom(c.raw, 1)[1])]

\* miette!(...).with_source_code(commit.raw.clone())
Report(c, opts) ==
    [severity    |-> ReportSeverity(opts.severity),
     labels      |-> ReportLabels(Unwrap(scope_of(c))),
     help        |-> ReportHelp(opts.condition, opts.scopes),
     code        |-> "rule/scope-enum",
     url         |-> "https://example.com",
     message     |-> "Scope not allowed",
     source_code |-> c.raw]

(***************************************************************************)
(* State                                                                   *)
(***************************************************************************)

VARIABLES
    pc,        \* position in main / rule_scope_enum
    commit,    \* Option: the parsed Commit, None before parse_commit
    settings,  \* Option: the built Config, None before build()
    config,    \* Option: the deserialized scope-enum options
    report,    \* Option<Report>: what rule_scope_enum returns
    outcome    \* Option: main's result, "Ok" or "Err"

vars == <<pc, commit, settings, config, report, outcome>>

\* the literal of main
commit_message ==
    <<"f","e","a","t","(","n","i","c","e",")",":"," ","a","d","d"," ",
      "c","o","o","l"," ","f","e","a","t","u","r","e","\n","\n",
      "s","o","m","e"," ","b","o","d","y","\n","\n",
      "s","e","c","o","n","d"," ","b","o","d","y"," ","l","i","n","e","\n","\n",
      "s","o","m","e"," ","f","o","o","t","e","r">>

nice == <<"n","i","c","e">>
fix == <<"f","i","x">>
chore == <<"c","h","o","r","e">>
feat == <<"f","e","a","t">>
add == <<"a","d","d">>

\* longest configured scope list explored
MaxScopes == 2

ScopeNames == {nice, fix, chore}

RECURSIVE SeqsUpTo(_, _)
SeqsUpTo(S, n) ==
    IF n = 0 THEN {<<>>}
    ELSE LET shorter == SeqsUpTo(S, n - 1)
         IN  shorter \cup {Append(q, x) : q \in shorter, x \in S}

ScopeLists == SeqsUpTo(ScopeNames, MaxScopes)

\* what the configuration file and environment may hold for scope-enum
SeverityWords == {"off", "warning", "error", "fatal"}
ConditionWords == {"never", "always", "sometimes"}

Settings ==
    {[rules |-> None]}
    \cup {[rules |-> Some([severity |-> s, condition |-> c, scopes |-> v])] :
              s \in SeverityWords, c \in ConditionWords, v \in ScopeLists}

\* every ScopeEnumOpts value
Opts == [severity : Severity, condition : Condition, scopes : ScopeLists]

(***************************************************************************)
(* rule_scope_enum, step by step                                           *)
(***************************************************************************)

\* a slip: the Off check is missing
RuleOffMissing ==
    /\ pc = "rule_entry"
    /\ pc' = "rule_scope"
    /\ UNCHANGED <<commit, settings, config, report, outcome>>

\* lines 13-15: severity Off returns None at once
RuleOff ==
    /\ pc = "rule_entry"
    /\ IF Unwrap(config).severity = "Off"
       THEN /\ report' = None
            /\ pc' = "returned"
       ELSE /\ pc' = "rule_scope"
            /\ UNCHANGED report
    /\ UNCHANGED <<commit, settings, config, outcome>>

\* lines 17-23, 46-48: the scope, membership and validity
RuleScope ==
    /\ pc = "rule_scope"
    /\ IF scope_of(Unwrap(commit)) = None
       THEN /\ report' = None
            /\ pc' = "returned"
       ELSE LET scope == Unwrap(scope_of(Unwrap(commit)))
                is_in_scopes == Contains(Unwrap(config).scopes, scope.value)
            IN  IF is_valid(Unwrap(config).condition, is_in_scopes)
                THEN /\ report' = None
                     /\ pc' = "returned"
                ELSE /\ pc' = "rule_report"
                     /\ UNCHANGED report
    /\ UNCHANGED <<commit, settings, config, outcome>>

\* lines 24-44: return Some(miette!(...))
RuleReport ==
    /\ pc = "rule_report"
    /\ report' = Some(Report(Unwrap(commit), Unwrap(config)))
    /\ pc' = "returned"
    /\ UNCHANGED <<commit, settings, config, outcome>>

(***************************************************************************)
(* main                                                                    *)
(***************************************************************************)

Init ==
    /\ pc = "start"
    /\ commit = None
    /\ settings = None
    /\ config = None
    /\ report = None
    /\ outcome = None

\* line 96: let commit = parse_commit(&commit_message)
ParseCommit ==
    /\ pc = "start"
    /\ commit' = Some(parse_commit(commit_message))
    /\ pc' = "build"
    /\ UNCHANGED <<settings, config, report, outcome>>

\* lines 99-106: Config::builder()...build().unwrap()
Build ==
    /\ pc = "build"
    /\ \/ /\ pc' = "panicked"
          /\ UNCHANGED settings
       \/ /\ \E st \in Settings : settings' = Some(st)
          /\ pc' = "deserialize"
    /\ UNCHANGED <<commit, config, report, outcome>>

\* a slip: unwrap_or with a default instead of unwrap
DeserializeOrDefault ==
    /\ pc = "deserialize"
    /\ LET r == try_deserialize(Unwrap(settings))
       IN  config' = IF r = None
                     THEN Some([severity |-> "Error", condition |-> "Always",
                                scopes |-> <<>>])
                     ELSE r
    /\ pc' = "rule_entry"
    /\ UNCHANGED <<commit, settings, report, outcome>>

\* line 109: settings.try_deserialize::<RulesConfig>().unwrap()
Deserialize ==
    /\ pc = "deserialize"
    /\ LET r == try_deserialize(Unwrap(settings))
       IN  IF r = None
           THEN /\ pc' = "panicked"
                /\ UNCHANGED config
           ELSE /\ config' = r
                /\ pc' = "rule_entry"
    /\ UNCHANGED <<commit, settings, report, outcome>>

\* lines 112-116: Err(report) when the rule reported, Ok(()) otherwise
Return ==
    /\ pc = "returned"
    /\ outcome' = IF report # None THEN Some("Err") ELSE Some("Ok")
    /\ pc' = "exit"
    /\ UNCHANGED <<commit, settings, config, report>>

Next ==
    \/ ParseCommit
    \/ Build
    \/ Deserialize
    \/ RuleOff
    \/ RuleScope
    \/ RuleReport
    \/ Return

Spec == Init /\ [][Next]_vars

(***************************************************************************)
(* rule_scope_enum over every parsed commit and every option tuple         *)
(***************************************************************************)

Lp == <<"(">>
Rp == <<")">>

TypeParts == {<<>>, feat}
ScopeParts == {<<>>, Lp \o nice \o Rp, Lp \o fix \o Rp, Lp \o Rp,
               Lp \o nice, nice \o Rp}
BangParts == {<<>>, <<"!">>}
SepParts == {<<":", " ">>, <<":">>, <<>>}
DescParts == {<<>>, add}
RestParts ==
    {<<>>,
     <<"\n","\n","s","o","m","e"," ","b","o","d","y">>,
     <<"\n","\n","s","o","m","e"," ","b","o","d","y","\n","\n",
       "F","i","x","e","s"," ","#","1","2">>,
     <<"\n","\n","B","R","E","A","K","I","N","G"," ","C","H","A","N","G","E",
       ":"," ","y">>}

\* raw messages: every composition of the parts, the literal of main, and
\* the empty message
Messages ==
    {t \o s \o b \o c \o d \o r :
        t \in TypeParts, s \in ScopeParts, b \in BangParts,
        c \in SepParts, d \in DescParts, r \in RestParts}
    \cup {commit_message, <<>>}

InitRule ==
    /\ pc = "rule_entry"
    /\ \E raw \in Messages : commit = Some(parse_commit(raw))
    /\ settings = None
    /\ \E o \in Opts : config = Some(o)
    /\ report = None
    /\ outcome = None

NextRule ==
    \/ RuleOff
    \/ RuleScope
    \/ RuleReport

SpecRule == InitRule /\ [][NextRule]_vars

(***************************************************************************)
(* Properties                                                              *)
(***************************************************************************)

\* the call's arguments and result, once the commit and the options exist
TheCommit == Unwrap(commit)
TheOpts == Unwrap(config)
TheScope == Unwrap(TheCommit.scope)
TheReport == Unwrap(report)
Listed == TheScope.value \in {TheOpts.scopes[i] : i \in 1..Len(TheOpts.scopes)}

\* C1: with the scope present and severity Warning or Error, rule_scope_enum
\* returns no diagnostic exactly when (Always and the scope is listed) or
\* (Never and the scope is not listed); otherwise it returns one diagnostic.
C1_Verdict ==
    (/\ pc = "returned"
     /\ TheCommit.scope # None
     /\ TheOpts.severity \in {"Warning", "Error"})
    => /\ (report = None) <=>
            \/ TheOpts.condition = "Always" /\ Listed
            \/ TheOpts.condition = "Never" /\ ~Listed
       /\ report # None => Len(report) = 1

C1_Witness ==
    /\ pc = "returned"
    /\ TheCommit.scope # None
    /\ TheOpts.severity = "Warning"
    /\ TheOpts.condition = "Never"
    /\ Listed
    /\ report # None

\* C2: with severity Off the rule never reports, whatever the commit, the
\* condition and the list, and it returns before the scope or the list is
\* looked at (no position past the entry check is reached).
C2_OffSilent ==
    (config # None /\ TheOpts.severity = "Off")
    => /\ pc \notin {"rule_scope", "rule_report"}
       /\ report = None

C2_Witness ==
    /\ pc = "returned"
    /\ TheOpts.severity = "Off"
    /\ TheOpts.condition = "Always"
    /\ TheCommit.scope # None
    /\ ~Listed

\* C3: with the scope absent the rule returns no diagnostic, for every
\* severity, condition and list (the empty list included).
C3_AbsentScope ==
    (pc = "returned" /\ TheCommit.scope = None) => report = None

C3_Witness ==
    /\ pc = "returned"
    /\ TheCommit.scope = None
    /\ TheCommit.type_ # None
    /\ TheOpts.severity = "Error"
    /\ TheOpts.condition = "Always"
    /\ TheOpts.scopes = <<>>

RECURSIVE CommaList(_)
\* the values in order, ", " between neighbours, built from the right
CommaList(v) ==
    IF Len(v) = 0 THEN <<>>
    ELSE IF Len(v) = 1 THEN v[1]
    ELSE CommaList(SubSeq(v, 1, Len(v) - 1)) \o <<",", " ">> \o v[Len(v)]

\* C5: the help text is "scope must", then " not" under Never and nothing
\* under Always, then " be one of ", then the configured values in order
\* joined with ", "; [fix, chore] under Always gives
\* "scope must be one of fix, chore".
C5_HelpText ==
    report # None
    => /\ TheReport.help =
            <<"s","c","o","p","e"," ","m","u","s","t">>
            \o (IF TheOpts.condition = "Never" THEN <<" ","n","o","t">> ELSE <<>>)
            \o <<" ","b","e"," ","o","n","e"," ","o","f"," ">>
            \o CommaList(TheOpts.scopes)
       /\ (TheOpts.condition = "Always" /\ TheOpts.scopes = <<fix, chore>>)
          => TheReport.help =
               <<"s","c","o","p","e"," ","m","u","s","t"," ","b","e"," ",
                 "o","n","e"," ","o","f"," ","f","i","x",","," ",
                 "c","h","o","r","e">>

C5_Witness ==
    /\ report # None
    /\ TheOpts.condition = "Always"
    /\ TheOpts.scopes = <<fix, chore>>

\* C6: a returned diagnostic's severity is the configured one (Warning gives
\* warning, Error gives error); the Off arm is never reached, so no
\* diagnostic has Advice severity.
C6_SeverityMapping ==
    report # None
    => /\ TheOpts.severity = "Warning"
            => TheReport.severity = "miette::Severity::Warning"
       /\ TheOpts.severity = "Error"
            => TheReport.severity = "miette::Severity::Error"
       /\ TheOpts.severity # "Off"
       /\ TheReport.severity # "miette::Severity::Advice"

C6_Witness ==
    /\ report # None
    /\ TheOpts.severity = "Warning"
    /\ TheReport.severity = "miette::Severity::Warning"

\* what C7 says of a returned diagnostic
C7_Shape ==
    /\ Len(TheReport.labels) = 1
    /\ TheReport.labels[1].span = TheScope.span
    /\ TheReport.code = "rule/scope-enum"
    /\ TheReport.source_code = TheCommit.raw

\* C7: a returned diagnostic has exactly one label, spanning the scope's
\* span, the code "rule/scope-enum" and commit.raw unmodified as its source;
\* no step of the call changes the commit or the options.
C7_LabelAndFrame ==
    [][/\ commit' = commit
       /\ config' = config
       /\ report' # None => C7_Shape']_vars

C7_Witness ==
    /\ pc = "returned"
    /\ report # None
    /\ TheScope.span.start < TheScope.span.end
    /\ Len(TheCommit.raw) > Len(Slice(TheCommit.raw, LinesFrom(TheCommit.raw, 1)[1]))

\* span sp lies within raw and selects exactly text
SpanSelects(raw, sp, text) ==
    /\ sp.start <= sp.end
    /\ sp.end <= Len(raw)
    /\ Slice(raw, sp) = text

C10_FailFast ==
    /\ pc = "start" => commit = None /\ settings = None /\ config = None
    /\ pc = "build" => commit # None /\ settings = None /\ config = None
    /\ pc = "deserialize" => commit # None /\ settings # None /\ config = None
    /\ pc \in {"rule_entry", "rule_scope", "rule_report", "returned", "exit"}
         => /\ commit # None
            /\ settings # None
            /\ try_deserialize(Unwrap(settings)) # None
            /\ config = try_deserialize(Unwrap(settings))
    /\ pc = "panicked" => config = None /\ report = None /\ outcome = None
    /\ pc \in {"start", "build", "deserialize", "rule_entry"} => report = None

C10_Witness ==
    /\ pc = "panicked"
    /\ settings # None
    /\ Unwrap(settings).rules # None
    /\ Unwrap(Unwrap(settings).rules).severity = "fatal"

====
